---- MODULE Spec2Model ----
(***************************************************************************)
(* Model of the OmniVoice reader (App component, readLoop scheduler,       *)
(* timeline clock, upload pipeline, layout engine).                        *)
(*                                                                         *)
(* React semantics used by the model:                                      *)
(*  - tts / doc are the values of the ttsState / doc state hooks.  The     *)
(*    closures of a render (playTTS, readLoop, the button handlers) see    *)
(*    the snapshot Rendered of the render that created them; a            *)
(*    setTimeout(playTTS) callback and a running readLoop keep the         *)
(*    snapshot of the render they were created in.                         *)
(*  - the state updates of a task (a click handler, a timer callback, a    *)
(*    promise continuation) are committed when the task ends, before the   *)
(*    next task runs; the isPlayingRef effect runs with the commit.        *)
(*    Inside a task the ref still holds the value of the previous commit.  *)
(*  - the AudioContext is created inside a click and is never suspended,   *)
(*    so playTTS runs without awaiting resume().                           *)
(*  - pages are 0-based in the code; page p of a document is pages[p+1].   *)
(*  - times are integers; speed is in tenths (10 = 1.0x).                  *)
(*  - a text of the layout engine is a sequence of characters; coordinates *)
(*    are integers.                                                        *)
(***************************************************************************)
EXTENDS Integers, Sequences, FiniteSets, TLC

\* ---------------------------------------------------------------- bounds
MaxPages == 3        \* pages of an uploaded document
MaxParsed == 1       \* blocks parsePdf produces for a page that has text
MaxDocs == 1         \* document objects alive at once (loaded or held by a closure)
MaxLoops == 2        \* readLoop invocations suspended at once
MaxTimers == 1       \* pending setTimeout(playTTS, 100) callbacks
MaxHandles == 2      \* audio nodes alive at once
MaxNow == 2          \* audioContext.currentTime (timeline clock alone)
MaxSegments == 3     \* segments scheduled (timeline clock alone)
MaxTimeline == 4     \* largest nextStartTime of the reader
Durations == {2, 4}  \* audioBuffer.duration values
Speeds == {5, 10, 20}  \* speed slider positions, in tenths: 0.5x, 1.0x, 2.0x
Voices == {"Kore", "Puck"}
MaxItems == 3        \* text items of a page (layout engine)
MaxText == 2         \* characters of an item's text (layout engine)

VARIABLES
  doc,            \* doc state hook: 0 = null, else a document object
  docs,           \* docs[d]: the pages of document object d (mutated in place)
  isProcessing,   \* isProcessing state hook
  upload,         \* position of handleFileUpload
  tts,            \* ttsState state hook
  isPlayingRef,   \* isPlayingRef.current
  currentText,    \* currentText state hook
  audioCtx,       \* audioContextRef.current # null
  nextStartTime,  \* nextStartTimeRef.current
  now,            \* audioContext.currentTime
  handles,        \* audio source nodes, in creation order
  loops,          \* suspended readLoop invocations, in start order
  timers,         \* pending setTimeout(playTTS, 100) closures
  stopIssued,     \* a stopPlayback ran and no play request has been made since
  lastStart,      \* last block started since the last play request / stop / end
  timeline,       \* segments scheduled so far (timeline clock)
  layout,         \* the page whose text items parsePdf orders and clusters
  ev              \* the step just taken

vars == <<doc, docs, isProcessing, upload, tts, isPlayingRef, currentText,
          audioCtx, nextStartTime, now, handles, loops, timers, stopIssued,
          lastStart, timeline, layout, ev>>

Max(a, b) == IF a >= b THEN a ELSE b
Min(a, b) == IF a <= b THEN a ELSE b
RemoveAt(s, i) == SubSeq(s, 1, i - 1) \o SubSeq(s, i + 1, Len(s))

\* ------------------------------------------------------------- data model
NoText == [kind |-> "none", page |-> 0, idx |-> 0]
RawText(p) == [kind |-> "raw", page |-> p, idx |-> 0]
CleanText(p) == [kind |-> "clean", page |-> p, idx |-> 0]
ParsedText(p, i) == [kind |-> "parsed", page |-> p, idx |-> i]

TextBlock(c, o) == [type |-> "paragraph", content |-> c, order |-> o]

\* parsePdf: page i gets counts[i] clustered blocks and the joined raw text
ParsedPages(counts) ==
  [i \in 1..Len(counts) |->
     [blocks |-> [k \in 1..counts[i] |-> TextBlock(ParsedText(i - 1, k - 1), k - 1)],
      rawText |-> RawText(i - 1)]]

\* image / text upload: one page, no blocks
SinglePage == << [blocks |-> << >>, rawText |-> RawText(0)] >>

\* processRawLayout: response.text || rawText
ProcessRawLayout(raw, hasText) == IF hasText THEN CleanText(raw.page) ELSE raw

InitTts == [isPlaying |-> FALSE, currentPage |-> 0, currentBlockIndex |-> 0,
            speed |-> 10, voice |-> "Kore"]

\* what the closures of a render capture
Snapshot(t, d) == [isPlaying |-> t.isPlaying, currentPage |-> t.currentPage,
                   currentBlockIndex |-> t.currentBlockIndex, speed |-> t.speed,
                   voice |-> t.voice, doc |-> d]
Rendered == Snapshot(tts, doc)

NewLoop(snap) == [pc |-> "start", doc |-> snap.doc, pIdx |-> snap.currentPage,
                  bIdx |-> snap.currentBlockIndex, speed |-> snap.speed,
                  voice |-> snap.voice]
IdleUpload == [pc |-> "idle", kind |-> "none", pages |-> << >>]
NoStart == <<-1, -1>>
\* the step just taken; n: the nodes activeSourcesRef held when it stopped
\* them; alert: the text of the alert() dialog it showed, if any
NoAlert == "(no alert)"
Ev(k, n) == [kind |-> k, n |-> n, alert |-> NoAlert]
\* alert(err.message || "An error occurred during processing.")
AlertText(message) ==
  IF message = "" THEN "An error occurred during processing." ELSE message
Alerted(k, message) == [kind |-> k, n |-> 0, alert |-> AlertText(message)]

\* a page before its items are ordered and clustered; given: the items as
\* extracted, items: the items array, clustered: the array handed to
\* clusterTextItems, blocks: its string[][], clusteredBlocks: what it returned
NewLayout(items, pageWidth) ==
  [given |-> items, items |-> items, pageWidth |-> pageWidth,
   ordered |-> FALSE, sortedItems |-> << >>,
   clustered |-> FALSE, clusterInput |-> << >>, blocks |-> << >>,
   clusteredBlocks |-> << >>]

Init ==
  /\ doc = 0
  /\ docs = [d \in 1..MaxDocs |-> << >>]
  /\ isProcessing = FALSE
  /\ upload = IdleUpload
  /\ tts = InitTts
  /\ isPlayingRef = FALSE
  /\ currentText = NoText
  /\ audioCtx = FALSE
  /\ nextStartTime = 0
  /\ now = 0
  /\ handles = << >>
  /\ loops = << >>
  /\ timers = << >>
  /\ stopIssued = FALSE
  /\ lastStart = NoStart
  /\ timeline = << >>
  /\ layout = NewLayout(<< >>, 0)
  /\ ev = Ev("init", 0)

\* commit of the task's state updates; the isPlayingRef effect runs with it
Commit(t) == isPlayingRef' = t.isPlaying

\* ------------------------------------------------------------------ upload
\* a document object is garbage when nothing can reach it any more
DocInUse(d) ==
  \/ doc = d
  \/ \E l \in 1..Len(loops) : loops[l].doc = d
  \/ \E i \in 1..Len(timers) : timers[i].doc = d

FreeDocs == {d \in 1..MaxDocs : ~DocInUse(d)}
NewDoc == CHOOSE d \in FreeDocs : \A e \in FreeDocs : d <= e

FileTypes == {"pdf", "image", "text", "other"}

\* messages of the errors the awaited services reject with; parsePdf replaces
\* the error of an invalid PDF by its own
UnsupportedFormat == "Format not supported. Please use PDF, JPG, PNG, or TXT."
CorruptedPdf == "This PDF appears to be corrupted or encrypted. Try converting it to images."
ErrorMessages == {"", "Failed to fetch", CorruptedPdf}

\* page counts / block counts a decoded PDF can have
RECURSIVE CountSeqs(_)
CountSeqs(n) ==
  IF n = 0 THEN {<< >>}
  ELSE {Append(c, k) : c \in CountSeqs(n - 1), k \in {0, MaxParsed}}
PdfShapes == UNION {CountSeqs(n) : n \in 0..MaxPages}

\* the document objects still reachable after the step (the rest is garbage);
\* stated last in an action, after the variables DocInUse reads
KeepDocs(base) ==
  docs' = [d \in 1..MaxDocs |-> IF DocInUse(d)' THEN base[d] ELSE << >>]

UploadUnchanged ==
  /\ UNCHANGED <<tts, isPlayingRef, currentText, audioCtx, nextStartTime, now,
                 handles, loops, timers, stopIssued, lastStart, timeline, layout>>
  /\ KeepDocs(docs)

\* handleFileUpload up to its first await; an unsupported type throws at once
HandleFileUpload(type) ==
  /\ doc = 0
  /\ ~isProcessing
  /\ IF type = "other"
       THEN /\ ev' = Alerted("uploadRejected", UnsupportedFormat)
            /\ UNCHANGED <<isProcessing, upload>>
       ELSE /\ isProcessing' = TRUE
            /\ upload' = [pc |-> "decoding", kind |-> type, pages |-> << >>]
            /\ ev' = Ev("uploadStart", 0)
  /\ UNCHANGED doc
  /\ UploadUnchanged

\* parsePdf (+ OCR of an image-only PDF) / performOCR / file.text() resolves
UploadDecoded(counts) ==
  /\ upload.pc = "decoding"
  /\ upload.kind # "pdf" => counts = << 0 >>
  /\ LET pages == IF upload.kind = "pdf" THEN ParsedPages(counts) ELSE SinglePage IN
       IF Len(pages) > 0
         THEN /\ upload' = [upload EXCEPT !.pc = "cleaning", !.pages = pages]
              /\ ev' = Ev("uploadDecoded", 0)
              /\ UNCHANGED isProcessing
         ELSE /\ upload' = IdleUpload
              /\ isProcessing' = FALSE
              /\ ev' = Ev("uploadEmpty", 0)
  /\ UNCHANGED doc
  /\ UploadUnchanged

\* (variant: no finally block, the processing flag is left set)
UploadFailed_NoFinally(message) ==
  /\ upload.pc \in {"decoding", "cleaning"}
  /\ message = CorruptedPdf => (upload.pc = "decoding" /\ upload.kind = "pdf")
  /\ upload' = IdleUpload
  /\ ev' = Alerted("uploadFailed", message)
  /\ UNCHANGED <<doc, isProcessing>>
  /\ UploadUnchanged

\* an await of the try block rejects with an error of that message:
\* catch (alert), finally (setIsProcessing(false))
UploadFailed(message) ==
  /\ upload.pc \in {"decoding", "cleaning"}
  /\ message = CorruptedPdf => (upload.pc = "decoding" /\ upload.kind = "pdf")
  /\ upload' = IdleUpload
  /\ isProcessing' = FALSE
  /\ ev' = Alerted("uploadFailed", message)
  /\ UNCHANGED doc
  /\ UploadUnchanged

\* processRawLayout(pages[0].rawText) resolves: setDoc
UploadCleaned(hasText) ==
  /\ upload.pc = "cleaning"
  /\ FreeDocs # {}
  /\ LET cleaned == ProcessRawLayout(upload.pages[1].rawText, hasText)
         pages == [upload.pages EXCEPT ![1].blocks = << TextBlock(cleaned, 0) >>]
     IN /\ doc' = NewDoc
        /\ upload' = IdleUpload
        /\ isProcessing' = FALSE
        /\ ev' = Ev("uploadDone", 0)
        /\ UNCHANGED <<tts, isPlayingRef, currentText, audioCtx, nextStartTime,
                       now, handles, loops, timers, stopIssued, lastStart, timeline, layout>>
        /\ KeepDocs([docs EXCEPT ![NewDoc] = pages])

\* ---------------------------------------------------------- timeline clock
\* readLoop's scheduling arithmetic: startTime = max(nextStartTime, now),
\* nextStartTime = startTime + duration / speed  (speed in tenths)
\* (variant: the start time forgets nextStartTime)
Schedule_IgnoresNextStart(next, t, duration, speed) ==
  [start |-> t, next |-> t + (duration * 10) \div speed]

Schedule(next, t, duration, speed) ==
  LET startTime == Max(next, t)
  IN [start |-> startTime, next |-> startTime + (duration * 10) \div speed]

\* the node objects not in use (a node is told from the others by its id)
FreeIds(h) == {k \in 1..MaxHandles : \A i \in 1..Len(h) : h[i].id # k}

\* a started node: source.start(startTime); activeSourcesRef.current.add(source)
NewHandle(h) ==
  [state |-> "playing", tracked |-> TRUE,
   id |-> CHOOSE k \in FreeIds(h) : \A j \in FreeIds(h) : k <= j]

\* a node that is neither audible nor in activeSourcesRef is garbage
LiveHandles(h) == SelectSeq(h, LAMBDA x : x.state = "playing" \/ x.tracked)

\* activeSourcesRef.current.forEach(s => { try { s.stop(); } catch {} }):
\* stop() on a node that already finished throws and is swallowed
\* (variant: one try around the whole forEach, so the first throw ends it)
RECURSIVE StopEach_AbortsOnThrow(_, _)
StopEach_AbortsOnThrow(h, i) ==
  IF i > Len(h) THEN h
  ELSE IF h[i].tracked /\ h[i].state = "playing"
         THEN StopEach_AbortsOnThrow([h EXCEPT ![i].state = "stopped"], i + 1)
  ELSE IF h[i].tracked THEN h
  ELSE StopEach_AbortsOnThrow(h, i + 1)

RECURSIVE StopEach(_, _)
StopEach(h, i) ==
  IF i > Len(h) THEN h
  ELSE IF h[i].tracked /\ h[i].state = "playing"
         THEN StopEach([h EXCEPT ![i].state = "stopped"], i + 1)
         ELSE StopEach(h, i + 1)

\* activeSourcesRef.current.clear()
ClearTracked(h) == [i \in 1..Len(h) |-> [h[i] EXCEPT !.tracked = FALSE]]

\* activeSourcesRef.current
ActiveSources == SelectSeq(handles, LAMBDA x : x.tracked)

\* stopPlayback, applied to ttsState value t
StopPlayback(t) ==
  /\ tts' = [t EXCEPT !.isPlaying = FALSE]
  /\ handles' = LiveHandles(ClearTracked(StopEach(handles, 1)))
  /\ nextStartTime' = 0
  /\ stopIssued' = TRUE
  /\ lastStart' = NoStart

\* ------------------------------------------------------------------ readLoop
\* the loop's control flow from (p, b) to its next await or return:
\* the while conditions, the empty-page test and the play-flag test
RECURSIVE Scan(_, _, _, _)
Scan(pages, p, b, playing) ==
  IF p >= Len(pages) THEN [pc |-> "done", p |-> p, b |-> b]
  ELSE IF Len(pages[p + 1].blocks) = 0 THEN [pc |-> "cleanup", p |-> p, b |-> b]
  ELSE IF b < Len(pages[p + 1].blocks)
         THEN IF ~playing THEN [pc |-> "returned", p |-> p, b |-> b]
              ELSE [pc |-> "speech", p |-> p, b |-> b]
  ELSE Scan(pages, p + 1, 0, playing)

\* run loop lp from (p, b): the state updates it makes before it suspends
\* (loop.pc = "idle": it returned)
Continue(lp, p, b, t, text, playing, dcs) ==
  LET r == Scan(dcs[lp.doc], p, b, playing) IN
  CASE r.pc = "done" ->
         [loop |-> [lp EXCEPT !.pc = "idle"], text |-> text, end |-> "done",
          tts |-> [t EXCEPT !.isPlaying = FALSE, !.currentPage = 0,
                            !.currentBlockIndex = 0]]
    [] r.pc = "returned" ->
         [loop |-> [lp EXCEPT !.pc = "idle"], text |-> text, end |-> "returned",
          tts |-> t]
    [] r.pc = "cleanup" ->
         [loop |-> [lp EXCEPT !.pc = "cleanup", !.pIdx = r.p, !.bIdx = r.b],
          text |-> text, end |-> "cleanup", tts |-> t]
    [] r.pc = "speech" ->
         [loop |-> [lp EXCEPT !.pc = "speech", !.pIdx = r.p, !.bIdx = r.b],
          text |-> dcs[lp.doc][r.p + 1].blocks[r.b + 1].content, end |-> "speech",
          tts |-> [t EXCEPT !.currentPage = r.p, !.currentBlockIndex = r.b]]

\* playTTS as the closure of snapshot snap (ttsState and doc of its render)
PlayTTS(snap) ==
  IF snap.doc = 0
    THEN UNCHANGED <<tts, handles, nextStartTime, stopIssued, lastStart,
                     audioCtx, loops, currentText>>
  ELSE IF snap.isPlaying
    THEN /\ StopPlayback(tts)
         /\ UNCHANGED <<audioCtx, loops, currentText>>
  ELSE LET c == Continue(NewLoop(snap), snap.currentPage, snap.currentBlockIndex,
                         [tts EXCEPT !.isPlaying = TRUE], currentText,
                         isPlayingRef, docs)
       IN /\ audioCtx' = TRUE
          /\ tts' = c.tts
          /\ currentText' = c.text
          /\ IF c.loop.pc = "idle" THEN UNCHANGED loops
             ELSE /\ Len(loops) < MaxLoops
                  /\ loops' = Append(loops, c.loop)
          /\ stopIssued' = FALSE
          /\ lastStart' = NoStart
          /\ UNCHANGED <<handles, nextStartTime>>

\* the play / pause button
PlayClick ==
  /\ doc # 0
  /\ PlayTTS(Rendered)
  /\ Commit(tts')
  /\ ev' = (IF tts.isPlaying THEN Ev("pause", Len(ActiveSources)) ELSE Ev("play", 0))
  /\ UNCHANGED <<doc, isProcessing, upload, now, timers, timeline, layout>>
  /\ KeepDocs(docs)

\* setTimeout(playTTS, 100) fires: playTTS of the render of the click
TimerFires(i) ==
  /\ i \in 1..Len(timers)
  /\ PlayTTS(timers[i])
  /\ Commit(tts')
  /\ timers' = RemoveAt(timers, i)
  /\ ev' = (IF timers[i].doc # 0 /\ timers[i].isPlaying
              THEN Ev("timerStop", Len(ActiveSources)) ELSE Ev("timerPlay", 0))
  /\ UNCHANGED <<doc, isProcessing, upload, now, timeline, layout>>
  /\ KeepDocs(docs)

\* previous page (dir = -1) / next page (dir = 1)
SeekClick(dir) ==
  /\ doc # 0
  /\ LET n == Len(docs[doc])
         target == IF dir < 0 THEN Max(0, tts.currentPage - 1)
                   ELSE Min(n - 1, tts.currentPage + 1)
         t == [tts EXCEPT !.currentPage = target, !.currentBlockIndex = 0]
     IN IF isPlayingRef
          THEN /\ Len(timers) < MaxTimers
               /\ StopPlayback(t)
               /\ timers' = Append(timers, Rendered)
               /\ ev' = Ev("seekPlaying", Len(ActiveSources))
          ELSE /\ tts' = t
               /\ ev' = Ev("seekStopped", 0)
               /\ UNCHANGED <<handles, nextStartTime, stopIssued, lastStart, timers>>
  /\ Commit(tts')
  /\ UNCHANGED <<doc, isProcessing, upload, now, audioCtx, loops, currentText, timeline, layout>>
  /\ KeepDocs(docs)

\* DISMISS: stopPlayback(); setDoc(null)
Dismiss ==
  /\ doc # 0
  /\ StopPlayback(tts)
  /\ doc' = 0
  /\ Commit(tts')
  /\ ev' = Ev("dismiss", Len(ActiveSources))
  /\ UNCHANGED <<isProcessing, upload, now, audioCtx, loops, currentText, timers, timeline, layout>>
  /\ KeepDocs(docs)

ControlUnchanged ==
  /\ UNCHANGED <<doc, isProcessing, upload, isPlayingRef, now, audioCtx, loops,
                 currentText, timers, handles, nextStartTime, stopIssued,
                 lastStart, timeline, layout>>
  /\ KeepDocs(docs)

\* the speed slider
SetSpeed(v) ==
  /\ doc # 0
  /\ tts.speed # v
  /\ tts' = [tts EXCEPT !.speed = v]
  /\ ev' = Ev("speed", 0)
  /\ ControlUnchanged

\* the voice buttons
SetVoice(v) ==
  /\ doc # 0
  /\ tts.voice # v
  /\ tts' = [tts EXCEPT !.voice = v]
  /\ ev' = Ev("voice", 0)
  /\ ControlUnchanged

\* the loop's updates after a resumption, common to its continuations
Resume(l, c, kind) ==
  /\ loops' = IF c.loop.pc = "idle" THEN RemoveAt(loops, l)
              ELSE [loops EXCEPT ![l] = c.loop]
  /\ tts' = c.tts
  /\ Commit(c.tts)
  /\ currentText' = c.text
  /\ lastStart' = IF c.end = "done" THEN NoStart ELSE lastStart
  /\ ev' = Ev(kind, 0)
  /\ UNCHANGED <<doc, isProcessing, upload, audioCtx, nextStartTime, now,
                 handles, timers, stopIssued, timeline, layout>>

\* await processRawLayout(page.rawText) resolves
CleanupResolves(l, hasText) ==
  /\ l \in 1..Len(loops)
  /\ loops[l].pc = "cleanup"
  /\ LET lp == loops[l]
         cleaned == ProcessRawLayout(docs[lp.doc][lp.pIdx + 1].rawText, hasText)
         dcs == [docs EXCEPT ![lp.doc][lp.pIdx + 1].blocks = << TextBlock(cleaned, 0) >>]
     IN /\ Resume(l, Continue(lp, lp.pIdx, lp.bIdx, tts, currentText, isPlayingRef, dcs),
                  "cleanupOk")
        /\ KeepDocs(dcs)

\* await processRawLayout(page.rawText) rejects: nothing catches it
CleanupFails(l) ==
  /\ l \in 1..Len(loops)
  /\ loops[l].pc = "cleanup"
  /\ loops' = RemoveAt(loops, l)
  /\ ev' = Ev("cleanupFail", 0)
  /\ UNCHANGED <<doc, isProcessing, upload, tts, isPlayingRef, currentText,
                 audioCtx, nextStartTime, now, handles, timers, stopIssued,
                 lastStart, timeline, layout>>
  /\ KeepDocs(docs)

\* generateSpeech and decodeAudioData resolve: the node is started and tracked
SpeechResolves(l, duration) ==
  /\ l \in 1..Len(loops)
  /\ loops[l].pc = "speech"
  /\ Len(handles) < MaxHandles
  /\ LET lp == loops[l]
         s == Schedule(nextStartTime, now, duration, lp.speed)
     IN /\ s.next <= MaxTimeline
        /\ handles' = Append(handles, NewHandle(handles))
        /\ nextStartTime' = s.next
        /\ lastStart' = <<lp.pIdx, lp.bIdx>>
        /\ loops' = [loops EXCEPT ![l].pc = "sleep"]
  /\ ev' = Ev("speechOk", 0)
  /\ UNCHANGED <<doc, isProcessing, upload, tts, isPlayingRef, currentText,
                 audioCtx, now, timers, stopIssued, timeline, layout>>
  /\ KeepDocs(docs)

\* (variant: no catch around the block, the rejection ends the loop)
SpeechFails_Rethrows(l) ==
  /\ l \in 1..Len(loops)
  /\ loops[l].pc = "speech"
  /\ loops' = RemoveAt(loops, l)
  /\ ev' = Ev("speechFail", 0)
  /\ UNCHANGED <<doc, isProcessing, upload, tts, isPlayingRef, currentText,
                 audioCtx, nextStartTime, now, handles, timers, stopIssued,
                 lastStart, timeline, layout>>
  /\ KeepDocs(docs)

\* generateSpeech or decodeAudioData rejects: catch, bIdx++
SpeechFails(l) ==
  /\ l \in 1..Len(loops)
  /\ loops[l].pc = "speech"
  /\ LET lp == loops[l] IN
       Resume(l, Continue(lp, lp.pIdx, lp.bIdx + 1, tts, currentText, isPlayingRef, docs),
              "speechFail")
  /\ KeepDocs(docs)

\* the look-ahead sleep ends: bIdx++
Wakes(l) ==
  /\ l \in 1..Len(loops)
  /\ loops[l].pc = "sleep"
  /\ LET lp == loops[l] IN
       Resume(l, Continue(lp, lp.pIdx, lp.bIdx + 1, tts, currentText, isPlayingRef, docs),
              "wake")
  /\ KeepDocs(docs)

AudioUnchanged ==
  /\ UNCHANGED <<doc, isProcessing, upload, tts, isPlayingRef, currentText,
                 audioCtx, nextStartTime, loops, timers, stopIssued, lastStart,
                 timeline, layout>>
  /\ KeepDocs(docs)

\* a node plays to its end
HandleEnds(i) ==
  /\ i \in 1..Len(handles)
  /\ handles[i].state = "playing"
  /\ handles' = LiveHandles([handles EXCEPT ![i].state = "ended"])
  /\ ev' = Ev("ended", 0)
  /\ UNCHANGED now
  /\ AudioUnchanged

\* (variant: no onended callback is set, the ended node stays in the set)
OnEnded_KeepsSource(i) ==
  /\ i \in 1..Len(handles)
  /\ handles[i].state = "ended"
  /\ handles[i].tracked
  /\ ev' = Ev("onended", 0)
  /\ UNCHANGED <<now, handles>>
  /\ AudioUnchanged

\* source.onended = () => activeSourcesRef.current.delete(source)
OnEnded(i) ==
  /\ i \in 1..Len(handles)
  /\ handles[i].state = "ended"
  /\ handles[i].tracked
  /\ handles' = LiveHandles([handles EXCEPT ![i].tracked = FALSE])
  /\ ev' = Ev("onended", 0)
  /\ UNCHANGED now
  /\ AudioUnchanged

\* audioContext.currentTime advances
Tick ==
  /\ now < MaxNow
  /\ now' = now + 1
  /\ ev' = Ev("tick", 0)
  /\ UNCHANGED handles
  /\ AudioUnchanged

\* ------------------------------------------------------------ layout engine
\* a text is a sequence of characters; a TextItem is [text, box: [x, y, w]]
Y_THRESHOLD == 15
bandSize == 20
\* the characters \s matches and trim() removes
Whitespace == {" ", "\t", "\n"}

TextItem(text, x, y, w) == [text |-> text, box |-> [x |-> x, y |-> y, w |-> w]]

Abs(n) == IF n < 0 THEN -n ELSE n

\* comparator of determineReadingOrder: band, then x
\* (variant: compares y itself, not its band)
ReadingOrderCompare_ByY(a, b) ==
  IF a.box.y # b.box.y THEN a.box.y - b.box.y ELSE a.box.x - b.box.x

ReadingOrderCompare(a, b) ==
  LET aBand == a.box.y \div bandSize
      bBand == b.box.y \div bandSize
  IN IF aBand # bBand THEN aBand - bBand ELSE a.box.x - b.box.x

\* comparator of clusterTextItems: a.box.y - b.box.y || a.box.x - b.box.x
ClusterCompare(a, b) ==
  IF a.box.y - b.box.y # 0 THEN a.box.y - b.box.y ELSE a.box.x - b.box.x

Compare(order, a, b) ==
  IF order = "reading" THEN ReadingOrderCompare(a, b) ELSE ClusterCompare(a, b)

\* Array.prototype.sort with a comparator: a stable insertion sort
RECURSIVE InsertItem(_, _, _, _)
InsertItem(sorted, item, order, j) ==
  IF j >= 1 /\ Compare(order, sorted[j], item) > 0
    THEN InsertItem(sorted, item, order, j - 1)
    ELSE SubSeq(sorted, 1, j) \o << item >> \o SubSeq(sorted, j + 1, Len(sorted))

RECURSIVE SortFrom(_, _, _, _)
SortFrom(arr, order, i, sorted) ==
  IF i > Len(arr) THEN sorted
  ELSE SortFrom(arr, order, i + 1, InsertItem(sorted, arr[i], order, Len(sorted)))

ArraySort(arr, order) == SortFrom(arr, order, 1, << >>)

\* determineReadingOrder: [...items].sort(...); items: the argument array
\* after the call, result: the returned array
determineReadingOrder(items) ==
  [items |-> items, result |-> ArraySort(items, "reading")]

\* the split test of clusterTextItems; horizontalGap > pageWidth * 0.15 is
\* compared exactly, in hundredths
\* (variant: a gap equal to a threshold splits too)
Splits_AtThreshold(lastBox, box, pageWidth) ==
  LET verticalGap == Abs(box.y - lastBox.y)
      horizontalGap == Abs(box.x - (lastBox.x + lastBox.w))
  IN verticalGap >= Y_THRESHOLD \/ horizontalGap * 100 >= pageWidth * 15

Splits(lastBox, box, pageWidth) ==
  LET verticalGap == Abs(box.y - lastBox.y)
      horizontalGap == Abs(box.x - (lastBox.x + lastBox.w))
  IN verticalGap > Y_THRESHOLD \/ horizontalGap * 100 > pageWidth * 15

\* sortedItems.forEach(...) and the final push of currentBlock
RECURSIVE ForEachItem(_, _, _, _, _)
ForEachItem(sortedItems, i, blocks, currentBlock, pageWidth) ==
  IF i > Len(sortedItems)
    THEN IF Len(currentBlock) > 0 THEN Append(blocks, currentBlock) ELSE blocks
  ELSE IF i = 1
    THEN ForEachItem(sortedItems, 2, blocks, << sortedItems[1].text >>, pageWidth)
  ELSE IF Splits(sortedItems[i - 1].box, sortedItems[i].box, pageWidth)
    THEN ForEachItem(sortedItems, i + 1, Append(blocks, currentBlock),
                     << sortedItems[i].text >>, pageWidth)
  ELSE ForEachItem(sortedItems, i + 1, blocks,
                   Append(currentBlock, sortedItems[i].text), pageWidth)

\* the blocks (string[][]) clusterTextItems builds
\* (variant: the block still open after the last item is not pushed)
ClusterBlocks_WithoutFinalPush(items, pageWidth) ==
  IF Len(items) = 0 THEN << >>
  ELSE LET blocks == ForEachItem(ArraySort(items, "cluster"), 1, << >>, << >>, pageWidth)
       IN SubSeq(blocks, 1, Len(blocks) - 1)

ClusterBlocks(items, pageWidth) ==
  IF Len(items) = 0 THEN << >>
  ELSE ForEachItem(ArraySort(items, "cluster"), 1, << >>, << >>, pageWidth)

\* b.join(' ')
RECURSIVE Join(_, _)
Join(texts, i) ==
  IF i > Len(texts) THEN << >>
  ELSE IF i = 1 THEN texts[1] \o Join(texts, 2)
  ELSE << " " >> \o texts[i] \o Join(texts, i + 1)

\* .replace(/\s+/g, ' '): every maximal run of whitespace becomes one space
RECURSIVE ReplaceWhitespaceRuns(_, _)
ReplaceWhitespaceRuns(str, i) ==
  IF i > Len(str) THEN << >>
  ELSE IF str[i] \notin Whitespace THEN << str[i] >> \o ReplaceWhitespaceRuns(str, i + 1)
  ELSE IF i > 1 /\ str[i - 1] \in Whitespace THEN ReplaceWhitespaceRuns(str, i + 1)
  ELSE << " " >> \o ReplaceWhitespaceRuns(str, i + 1)

\* .trim()
RECURSIVE TrimStart(_)
TrimStart(str) ==
  IF Len(str) > 0 /\ str[1] \in Whitespace THEN TrimStart(Tail(str)) ELSE str

RECURSIVE TrimEnd(_)
TrimEnd(str) ==
  IF Len(str) > 0 /\ str[Len(str)] \in Whitespace
    THEN TrimEnd(SubSeq(str, 1, Len(str) - 1)) ELSE str

\* (variant: only leading whitespace is removed)
Trim_StartOnly(str) == TrimStart(str)

Trim(str) == TrimEnd(TrimStart(str))

BlockText(b) == Trim(ReplaceWhitespaceRuns(Join(b, 1), 1))

clusterTextItems(items, pageWidth) ==
  LET blocks == ClusterBlocks(items, pageWidth)
  IN [k \in 1..Len(blocks) |-> BlockText(blocks[k])]

\* the pages the layout engine is applied to
Xs == {0, 25, 26}
Ys == {-5, 10, 11, 26}
Widths == {10}
PageWidths == {100, 120}
Letters == <<"a", "b", "c", "d", "e">>

\* an item anywhere on the page
Fragments == {TextItem(<< Letters[1] >>, x, y, w) :
                x \in Xs, y \in Ys, w \in Widths}

\* one paragraph of five items, each starting where the previous one ends,
\* all within 10 units vertically
ParagraphYs == {0, 5, 10}
ParagraphPage(ys) ==
  [i \in 1..5 |-> TextItem(<< Letters[i] >>, (i - 1) * 10, ys[i], 10)]

\* texts that hold whitespace
Texts == UNION {[1..n -> {"a"} \cup Whitespace] : n \in 0..MaxText}

ReaderIdle ==
  /\ doc = 0
  /\ docs = [d \in 1..MaxDocs |-> << >>]
  /\ isProcessing = FALSE
  /\ upload = IdleUpload
  /\ tts = InitTts
  /\ isPlayingRef = FALSE
  /\ currentText = NoText
  /\ audioCtx = FALSE
  /\ nextStartTime = 0
  /\ now = 0
  /\ handles = << >>
  /\ loops = << >>
  /\ timers = << >>
  /\ stopIssued = FALSE
  /\ lastStart = NoStart
  /\ timeline = << >>

\* the pages the layout engine is applied to: up to MaxItems items anywhere
\* on the page, a five-item paragraph, one or two items with whitespace
LayoutInit ==
  /\ ReaderIdle
  /\ \/ \E n \in 0..MaxItems : \E items \in [1..n -> Fragments] :
          \E pageWidth \in PageWidths : layout = NewLayout(items, pageWidth)
     \/ \E ys \in [1..5 -> ParagraphYs] : layout = NewLayout(ParagraphPage(ys), 100)
     \/ \E t \in Texts : layout = NewLayout(<< TextItem(t, 0, 0, 10) >>, 100)
     \/ \E t \in Texts, u \in Texts, x \in {10, 50} :
          layout = NewLayout(<< TextItem(t, 0, 0, 10), TextItem(u, x, 0, 10) >>, 100)
  /\ ev = Ev("init", 0)

ReaderUnchanged ==
  UNCHANGED <<doc, docs, isProcessing, upload, tts, isPlayingRef, currentText,
              audioCtx, nextStartTime, now, handles, loops, timers, stopIssued,
              lastStart, timeline>>

\* parsePdf: const sortedItems = determineReadingOrder(items)
OrderItems ==
  /\ ~layout.ordered
  /\ ~layout.clustered
  /\ LET r == determineReadingOrder(layout.items)
     IN layout' = [layout EXCEPT !.items = r.items, !.sortedItems = r.result,
                                 !.ordered = TRUE]
  /\ ev' = Ev("order", 0)
  /\ ReaderUnchanged

\* clusterTextItems applied to the items as extracted or, as parsePdf does,
\* to sortedItems
ClusterItems ==
  /\ ~layout.clustered
  /\ LET input == IF layout.ordered THEN layout.sortedItems ELSE layout.items
     IN layout' = [layout EXCEPT
                     !.clusterInput = input,
                     !.blocks = ClusterBlocks(input, layout.pageWidth),
                     !.clusteredBlocks = clusterTextItems(input, layout.pageWidth),
                     !.clustered = TRUE]
  /\ ev' = Ev("cluster", 0)
  /\ ReaderUnchanged

NextLayout ==
  \/ OrderItems
  \/ ClusterItems

LayoutSpec == LayoutInit /\ [][NextLayout]_vars

\* ------------------------------------------------------- specifications
\* the reader: every handler, any interleaving
Next ==
  \/ \E type \in FileTypes : HandleFileUpload(type)
  \/ \E counts \in PdfShapes : UploadDecoded(counts)
  \/ \E message \in ErrorMessages : UploadFailed(message)
  \/ UploadCleaned(TRUE)
  \/ PlayClick
  \/ \E i \in 1..MaxTimers : TimerFires(i)
  \/ \E dir \in {-1, 1} : SeekClick(dir)
  \/ Dismiss
  \/ \E l \in 1..MaxLoops : CleanupResolves(l, TRUE)
  \/ \E l \in 1..MaxLoops : CleanupFails(l)
  \/ \E l \in 1..MaxLoops : SpeechResolves(l, 2)
  \/ \E l \in 1..MaxLoops : SpeechFails(l)
  \/ \E l \in 1..MaxLoops : Wakes(l)
  \/ \E i \in 1..MaxHandles : HandleEnds(i)
  \/ \E i \in 1..MaxHandles : OnEnded(i)

Spec == Init /\ [][Next]_vars

\* one narration at a time: play is pressed only when no earlier readLoop is
\* still suspended, and the document stays loaded
PlayClickIdle ==
  /\ loops = << >>
  /\ PlayClick

NextSolo ==
  \/ \E type \in FileTypes : HandleFileUpload(type)
  \/ \E counts \in PdfShapes : UploadDecoded(counts)
  \/ \E message \in ErrorMessages : UploadFailed(message)
  \/ UploadCleaned(TRUE)
  \/ PlayClickIdle
  \/ \E i \in 1..MaxTimers : TimerFires(i)
  \/ \E dir \in {-1, 1} : SeekClick(dir)
  \/ \E l \in 1..MaxLoops, hasText \in BOOLEAN : CleanupResolves(l, hasText)
  \/ \E l \in 1..MaxLoops : CleanupFails(l)
  \/ \E l \in 1..MaxLoops : SpeechResolves(l, 2)
  \/ \E l \in 1..MaxLoops : SpeechFails(l)
  \/ \E l \in 1..MaxLoops : Wakes(l)
  \/ \E i \in 1..MaxHandles : HandleEnds(i)
  \/ \E i \in 1..MaxHandles : OnEnded(i)

SpecSolo == Init /\ [][NextSolo]_vars

\* an uninterrupted narration: play is pressed only while stopped, the page
\* buttons only while stopped, nothing pauses or dismisses; every awaited call
\* (clean-up, synthesis, decoding, the look-ahead sleep) eventually returns or
\* fails
PlayStart ==
  /\ ~tts.isPlaying
  /\ loops = << >>
  /\ PlayClick

SeekIdle(dir) ==
  /\ ~isPlayingRef
  /\ SeekClick(dir)

LoopStep ==
  \E l \in 1..MaxLoops :
    \/ CleanupResolves(l, TRUE)
    \/ CleanupFails(l)
    \/ SpeechResolves(l, 2)
    \/ SpeechFails(l)
    \/ Wakes(l)

AudioStep ==
  \E i \in 1..MaxHandles : HandleEnds(i) \/ OnEnded(i)

NextRun ==
  \/ \E type \in FileTypes : HandleFileUpload(type)
  \/ \E counts \in PdfShapes : UploadDecoded(counts)
  \/ \E message \in ErrorMessages : UploadFailed(message)
  \/ UploadCleaned(TRUE)
  \/ PlayStart
  \/ \E dir \in {-1, 1} : SeekIdle(dir)
  \/ LoopStep
  \/ AudioStep

RunSpec == Init /\ [][NextRun]_vars /\ WF_vars(LoopStep) /\ WF_vars(AudioStep)

\* an uninterrupted narration, with the speed slider and the voice buttons
NextControls ==
  \/ NextRun
  \/ \E v \in Speeds : SetSpeed(v)
  \/ \E v \in Voices : SetVoice(v)

ControlSpec == Init /\ [][NextControls]_vars

\* the upload pipeline alone: documents are uploaded, paged through and
\* dismissed
NextUpload ==
  \/ \E type \in FileTypes : HandleFileUpload(type)
  \/ \E counts \in PdfShapes : UploadDecoded(counts)
  \/ \E message \in ErrorMessages : UploadFailed(message)
  \/ \E hasText \in BOOLEAN : UploadCleaned(hasText)
  \/ \E dir \in {-1, 1} : SeekClick(dir)
  \/ Dismiss

UploadSpec == Init /\ [][NextUpload]_vars

\* play and pause in any order, the page buttons only while stopped; the
\* clean-up service answers a call with a text or with none
NextLazy ==
  \/ \E type \in FileTypes : HandleFileUpload(type)
  \/ \E counts \in PdfShapes : UploadDecoded(counts)
  \/ \E message \in ErrorMessages : UploadFailed(message)
  \/ UploadCleaned(TRUE)
  \/ PlayClick
  \/ \E dir \in {-1, 1} : SeekIdle(dir)
  \/ \E l \in 1..MaxLoops, hasText \in BOOLEAN : CleanupResolves(l, hasText)
  \/ \E l \in 1..MaxLoops : CleanupFails(l)
  \/ \E l \in 1..MaxLoops : SpeechResolves(l, 2)
  \/ \E l \in 1..MaxLoops : SpeechFails(l)
  \/ \E l \in 1..MaxLoops : Wakes(l)
  \/ AudioStep

LazySpec == Init /\ [][NextLazy]_vars

\* one narration at a time of a scanned PDF of two or three pages (no page
\* has text, each is cleaned up when the loop reaches it); every node that
\* plays reaches its end and every ended event is delivered
ScannedShapes == {<< 0, 0 >>, << 0, 0, 0 >>}

NextAudio ==
  \/ HandleFileUpload("pdf")
  \/ \E counts \in ScannedShapes : UploadDecoded(counts)
  \/ UploadCleaned(TRUE)
  \/ PlayClickIdle
  \/ \E i \in 1..MaxTimers : TimerFires(i)
  \/ \E dir \in {-1, 1} : SeekClick(dir)
  \/ LoopStep
  \/ AudioStep

AudioFair ==
  \A i \in 1..MaxHandles : WF_vars(HandleEnds(i) \/ OnEnded(i))

AudioSpec == Init /\ [][NextAudio]_vars /\ AudioFair

\* the timeline clock alone: segments of any duration and speed are scheduled
\* while the audio clock advances
ClockSchedule(duration, speed) ==
  /\ Len(timeline) < MaxSegments
  /\ LET s == Schedule(nextStartTime, now, duration, speed)
     IN /\ nextStartTime' = s.next
        /\ timeline' = Append(timeline, [start |-> s.start, now |-> now,
                                         duration |-> duration, speed |-> speed])
  /\ ev' = Ev("schedule", 0)
  /\ UNCHANGED <<doc, docs, isProcessing, upload, tts, isPlayingRef, currentText,
                 audioCtx, now, handles, loops, timers, stopIssued, lastStart,
                 layout>>

NextClock ==
  \/ \E d \in Durations, v \in Speeds : ClockSchedule(d, v)
  \/ Tick

ClockSpec == Init /\ [][NextClock]_vars

\* ------------------------------------------------------------------ claims
StopKinds == {"pause", "seekPlaying", "dismiss", "timerStop"}
TimerKinds == {"timerStop", "timerPlay"}

\* C1: once stopPlayback has run, no audio node is started until the next play
\* request, also when a synthesis that was pending at the stop resolves later.
C1_NoStartAfterStop == ev.kind = "speechOk" => ~stopIssued

\* C2: whenever isPlaying is false, activeSourcesRef is empty.
C2_StoppedHasNoActiveSources == ~tts.isPlaying => ActiveSources = << >>

\* C3: at most one readLoop invocation is started and not yet returned.
C3_AtMostOneLoop == Len(loops) <= 1

\* C4: the settle-delay callback of a seek made while playing restarts the
\* narration: isPlaying is true again and a loop runs from (target page, 0).
C4_SeekRestartsPlayback ==
  ev.kind \in TimerKinds =>
    /\ tts.isPlaying
    /\ \E l \in 1..Len(loops) :
         loops[l].pIdx = tts.currentPage /\ loops[l].bIdx = 0

\* C5: a play request made while stopped starts narrating at the cursor: when
\* the cursor block exists it is published and sent to speech synthesis.
CursorBlockExists ==
  /\ doc # 0
  /\ tts.currentPage < Len(docs[doc])
  /\ tts.currentBlockIndex < Len(docs[doc][tts.currentPage + 1].blocks)

C5_PlayNarratesCursor ==
  (ev.kind = "play" /\ CursorBlockExists) =>
    /\ currentText = docs[doc][tts.currentPage + 1].blocks[tts.currentBlockIndex + 1].content
    /\ \E l \in 1..Len(loops) :
         /\ loops[l].pc = "speech"
         /\ loops[l].pIdx = tts.currentPage
         /\ loops[l].bIdx = tts.currentBlockIndex

\* C6: every segment starts at max(end of the previous segment, now) with
\* end = start + duration / speed; so starts never decrease, a segment never
\* overlaps the previous one, a segment scheduled before the previous one
\* ends starts exactly at that end, and three 2-second segments at speed 1.0
\* with now = 0 start at 0, 2, 4.
SegEnd(seg) == seg.start + (seg.duration * 10) \div seg.speed

C6_TimelineSchedule ==
  /\ \A i \in 1..Len(timeline) :
       LET prevEnd == IF i = 1 THEN 0 ELSE SegEnd(timeline[i - 1]) IN
         /\ timeline[i].start = Max(prevEnd, timeline[i].now)
         /\ i > 1 => /\ timeline[i].start >= timeline[i - 1].start
                     /\ timeline[i].start >= prevEnd
                     /\ timeline[i].now <= prevEnd => timeline[i].start = prevEnd
  /\ Len(timeline) > 0 => nextStartTime = SegEnd(timeline[Len(timeline)])
  /\ (/\ Len(timeline) = 3
      /\ \A i \in 1..3 : /\ timeline[i].duration = 2
                         /\ timeline[i].speed = 10
                         /\ timeline[i].now = 0)
       => <<timeline[1].start, timeline[2].start, timeline[3].start>> = <<0, 2, 4>>

C6_Witness ==
  /\ Len(timeline) = 3
  /\ \A i \in 1..3 : /\ timeline[i].duration = 2
                     /\ timeline[i].speed = 10
                     /\ timeline[i].now = 0
  /\ timeline[3].start = 4

\* C7: a step that runs stopPlayback leaves activeSourcesRef empty and
\* nextStartTime 0, leaves no node playing that the set held (a node that
\* already ended does not keep the later ones from being stopped), and a
\* second stopPlayback right after it changes nothing of that.
C7_StopAll ==
  [][ev'.kind \in StopKinds =>
       /\ ActiveSources' = << >>
       /\ nextStartTime' = 0
       /\ \A i \in 1..Len(handles') : handles'[i].state # "playing"
       /\ ev.kind \in StopKinds =>
            /\ handles' = handles
            /\ nextStartTime' = nextStartTime
            /\ tts'.isPlaying = tts.isPlaying]_vars

C7_Witness ==
  /\ ev.kind \in StopKinds
  /\ ev.n >= 2
  /\ ActiveSources = << >>
  /\ nextStartTime = 0

\* C8: when synthesis or decoding fails for a block, no node is added,
\* nextStartTime keeps its value and, while the play flag is set and a next
\* block exists, the same loop goes on with that next block and playback
\* stays on.
NextBlock(pages, p, b) ==
  IF b + 1 < Len(pages[p + 1].blocks) THEN <<p, b + 1>>
  ELSE IF p + 1 < Len(pages) THEN <<p + 1, 0>>
  ELSE NoStart

C8_FailedBlockIsSkipped ==
  [][ev'.kind = "speechFail" =>
       /\ handles' = handles
       /\ nextStartTime' = nextStartTime
       /\ \E l \in 1..Len(loops) :
            /\ loops[l].pc = "speech"
            /\ LET nxt == NextBlock(docs[loops[l].doc], loops[l].pIdx, loops[l].bIdx) IN
                 (isPlayingRef /\ nxt # NoStart) =>
                   /\ Len(loops') = Len(loops)
                   /\ loops'[l].pc \in {"speech", "cleanup"}
                   /\ <<loops'[l].pIdx, loops'[l].bIdx>> = nxt
                   /\ tts'.isPlaying]_vars

C8_Witness ==
  /\ ev.kind = "speechFail"
  /\ Len(loops) = 1
  /\ loops[1].pc = "speech"
  /\ tts.isPlaying
  /\ handles = << >>

\* C9: when the clean-up call for a page fails while the play flag is set, the
\* loop goes on with the page's raw text as the page's only block.
C9_CleanupFailureDegrades ==
  (ev.kind = "cleanupFail" /\ isPlayingRef) =>
    \E l \in 1..Len(loops) :
      LET page == docs[loops[l].doc][loops[l].pIdx + 1] IN
        /\ loops[l].pc = "speech"
        /\ page.blocks = << TextBlock(page.rawText, 0) >>

\* C10: between a play request and the next stop or end of document the
\* blocks whose nodes are started are strictly increasing in (page, block).
LexLess(a, b) == a[1] < b[1] \/ (a[1] = b[1] /\ a[2] < b[2])

C10_StartsInBlockOrder ==
  [][(ev'.kind = "speechOk" /\ lastStart # NoStart) => LexLess(lastStart, lastStart')]_vars

\* C11: a narration that is started and never paused or seeked, and whose
\* awaited calls all return or fail, ends: the scheduler reaches Stopped with
\* the cursor back at page 0 / block 0 and no loop left.
C11_PlayRunsToEnd ==
  (ev.kind = "play") ~>
    (/\ ~tts.isPlaying
     /\ tts.currentPage = 0
     /\ tts.currentBlockIndex = 0
     /\ loops = << >>)

\* C12: when the play flag was cleared while a loop was suspended in synthesis
\* or in the look-ahead sleep, the loop's resumption does not write the cursor
\* (also at the last block of a page or of the document).
SuspendedKinds == {"speechOk", "speechFail", "wake"}

C12_PauseKeepsCursor ==
  [][(ev'.kind \in SuspendedKinds /\ ~isPlayingRef) =>
       /\ tts'.currentPage = tts.currentPage
       /\ tts'.currentBlockIndex = tts.currentBlockIndex]_vars

\* C13: a loop that resumes while the play flag is cleared calls neither the
\* clean-up service nor the synthesis service.
ResumeKinds == {"cleanupOk", "speechFail", "wake"}

C13_NoCallWhenCleared ==
  [][(ev'.kind \in ResumeKinds /\ ~isPlayingRef /\ Len(loops') = Len(loops)) =>
       \A l \in 1..Len(loops) :
         loops'[l] # loops[l] => loops'[l].pc \notin {"cleanup", "speech"}]_vars

\* C14: a step that changes the loaded document (dismiss, or an upload that
\* installs its document) leaves the cursor at page 0 / block 0.
C14_DocumentChangeResetsCursor ==
  ev.kind \in {"dismiss", "uploadDone"} =>
    (tts.currentPage = 0 /\ tts.currentBlockIndex = 0)

\* C15: a block whose synthesis is requested after a change of voice is
\* synthesized with the new voice, and a block scheduled after a change of
\* speed advances nextStartTime by its duration at the new speed.
C15_ControlsApplyToNextBlock ==
  [][/\ (ev'.kind \in ResumeKinds /\ Len(loops') = Len(loops)) =>
          \A l \in 1..Len(loops) :
            (loops'[l] # loops[l] /\ loops'[l].pc = "speech") =>
              loops'[l].voice = tts.voice
     /\ ev'.kind = "speechOk" =>
          nextStartTime' = Schedule(nextStartTime, now, 2, tts.speed).next]_vars

\* C16: the loaded document is absent or has at least one page, whose first
\* page carries its block; an upload that is rejected for its type or fails in
\* decoding, OCR or clean-up leaves no document and no document object, shows
\* a non-empty message and leaves the processing flag false; the flag is set
\* only while an upload is under way.
C16_UploadAllOrNothing ==
  /\ doc # 0 => /\ Len(docs[doc]) >= 1
                /\ Len(docs[doc][1].blocks) = 1
  /\ doc = 0 => \A d \in 1..MaxDocs : docs[d] = << >>
  /\ ev.kind \in {"uploadRejected", "uploadFailed"} =>
       /\ doc = 0
       /\ ev.alert \notin {NoAlert, ""}
       /\ ~isProcessing
       /\ upload = IdleUpload
  /\ ev.kind = "uploadEmpty" => (doc = 0 /\ ~isProcessing)
  /\ isProcessing <=> upload.pc # "idle"

C16_Witness ==
  /\ ev.kind = "uploadFailed"
  /\ ev.alert = "An error occurred during processing."
  /\ doc = 0
  /\ ~isProcessing

\* C17: determineReadingOrder returns the permutation of its input that is
\* sorted by (floor(y / 20), x) ascending and keeps the input order of items
\* with equal band and equal x; it leaves its argument as it was, gives the
\* same output when called again, and returns the empty array for the empty
\* array.
Band(item) == IF item.box.y >= 0 THEN item.box.y \div 20
              ELSE -((19 - item.box.y) \div 20)

KeyLess(a, b) ==
  Band(a) < Band(b) \/ (Band(a) = Band(b) /\ a.box.x < b.box.x)
KeyEqual(a, b) == Band(a) = Band(b) /\ a.box.x = b.box.x

\* the place of input item i in the stable order
StableRank(arr, i) ==
  1 + Cardinality({j \in 1..Len(arr) :
                     \/ KeyLess(arr[j], arr[i])
                     \/ (KeyEqual(arr[j], arr[i]) /\ j < i)})

C17_ReadingOrderIsStableSort ==
  layout.ordered =>
    /\ Len(layout.sortedItems) = Len(layout.given)
    /\ \A i \in 1..Len(layout.given) :
         layout.sortedItems[StableRank(layout.given, i)] = layout.given[i]
    /\ \A i \in 1..Len(layout.sortedItems), j \in 1..Len(layout.sortedItems) :
         i < j => ~KeyLess(layout.sortedItems[j], layout.sortedItems[i])
    /\ layout.items = layout.given
    /\ determineReadingOrder(layout.given).result = layout.sortedItems
    /\ layout.given = << >> => layout.sortedItems = << >>

\* items of one band and one x given in descending y, and an item of a lower
\* band given last
C17_Witness ==
  /\ layout.ordered
  /\ Len(layout.given) = 3
  /\ layout.given[1].box = [x |-> 0, y |-> 11, w |-> 10]
  /\ layout.given[2].box = [x |-> 0, y |-> 10, w |-> 10]
  /\ layout.given[3].box = [x |-> 25, y |-> -5, w |-> 10]
  /\ layout.sortedItems = << layout.given[3], layout.given[1], layout.given[2] >>

\* C18: two items adjacent in the (y, then x) order land in different blocks
\* exactly when their vertical gap exceeds 15 or their horizontal gap exceeds
\* 0.15 x pageWidth; a gap equal to its threshold does not split.
YXLess(a, b) == a.box.y < b.box.y \/ (a.box.y = b.box.y /\ a.box.x < b.box.x)

\* the input in (y, then x) order, ties in input order
YXRank(arr, i) ==
  1 + Cardinality({j \in 1..Len(arr) :
                     \/ YXLess(arr[j], arr[i])
                     \/ (~YXLess(arr[i], arr[j]) /\ j < i)})
YXSorted(arr) ==
  [k \in 1..Len(arr) |-> arr[CHOOSE i \in 1..Len(arr) : YXRank(arr, i) = k]]

\* the block that holds the k-th item of the sorted order
RECURSIVE BlockOf(_, _, _)
BlockOf(blocks, k, b) ==
  IF k <= Len(blocks[b]) THEN b ELSE BlockOf(blocks, k - Len(blocks[b]), b + 1)

VerticalGap(a, b) == Abs(b.box.y - a.box.y)
HorizontalGap(a, b) == Abs(b.box.x - (a.box.x + a.box.w))

RECURSIVE SumLen(_, _)
SumLen(blocks, b) == IF b > Len(blocks) THEN 0 ELSE Len(blocks[b]) + SumLen(blocks, b + 1)

C18_SplitRule ==
  layout.clustered =>
    LET sorted == YXSorted(layout.clusterInput) IN
      /\ SumLen(layout.blocks, 1) = Len(sorted)
      /\ \A k \in 1..(Len(sorted) - 1) :
           (BlockOf(layout.blocks, k, 1) # BlockOf(layout.blocks, k + 1, 1))
             <=> \/ VerticalGap(sorted[k], sorted[k + 1]) > 15
                 \/ 100 * HorizontalGap(sorted[k], sorted[k + 1]) > 15 * layout.pageWidth

\* both gaps of the first pair equal their thresholds (15, and 15 = 0.15 x 100):
\* no split; the next pair is 16 apart vertically: split
C18_Witness ==
  /\ layout.clustered
  /\ layout.pageWidth = 100
  /\ Len(layout.clusterInput) = 3
  /\ layout.clusterInput[1].box = [x |-> 0, y |-> -5, w |-> 10]
  /\ layout.clusterInput[2].box = [x |-> 25, y |-> 10, w |-> 10]
  /\ layout.clusterInput[3].box = [x |-> 25, y |-> 26, w |-> 10]
  /\ Len(layout.blocks) = 2
  /\ Len(layout.blocks[1]) = 2

\* C19: five items that touch horizontally (each starts where the previous one
\* ends) and lie within 10 units vertically are clustered into exactly one
\* block: their texts in left-to-right order, joined by single spaces.
IsParagraph(items) ==
  /\ Len(items) = 5
  /\ \A i \in 2..5 : items[i].box.x = items[i - 1].box.x + items[i - 1].box.w
  /\ \A i \in 1..5, j \in 1..5 : items[i].box.y - items[j].box.y <= 10

C19_ParagraphIsOneBlock ==
  (layout.clustered /\ IsParagraph(layout.given)) =>
    layout.clusteredBlocks = << Join([i \in 1..5 |-> layout.given[i].text], 1) >>

\* C20: a block string returned by clusterTextItems has no two consecutive
\* whitespace characters and no leading or trailing whitespace, whatever the
\* texts of the items are (empty, all whitespace, with tabs or newlines).
CleanString(str) ==
  /\ \A i \in 1..(Len(str) - 1) : ~(str[i] \in Whitespace /\ str[i + 1] \in Whitespace)
  /\ Len(str) > 0 => (str[1] \notin Whitespace /\ str[Len(str)] \notin Whitespace)

C20_BlocksAreNormalized ==
  layout.clustered =>
    \A k \in 1..Len(layout.clusteredBlocks) : CleanString(layout.clusteredBlocks[k])

\* a text with a tab and a newline around a letter, then an all-whitespace
\* text, in one block
C20_Witness ==
  /\ layout.clustered
  /\ Len(layout.given) = 2
  /\ layout.given[1].text = << "a", "\t" >>
  /\ layout.given[2].text = << "\n", " " >>
  /\ layout.blocks = << << layout.given[1].text, layout.given[2].text >> >>
  /\ layout.clusteredBlocks = << << "a" >> >>

\* C21: clusterTextItems returns the empty sequence for no item and exactly
\* one block, the normalized text of the item, for a single item, whatever the
\* page width and the item's place and text.
C21_FewItemsFewBlocks ==
  (layout.clustered /\ Len(layout.clusterInput) < 2) =>
    /\ Len(layout.clusterInput) = 0 => layout.clusteredBlocks = << >>
    /\ Len(layout.clusterInput) = 1 =>
         layout.clusteredBlocks =
           << Trim(ReplaceWhitespaceRuns(layout.clusterInput[1].text, 1)) >>

\* a single item whose text is only whitespace: one block, the empty string
C21_Witness ==
  /\ layout.clustered
  /\ Len(layout.clusterInput) = 1
  /\ layout.clusterInput[1].text = << " ", "\t" >>
  /\ layout.clusteredBlocks = << << >> >>

\* C22: a loop calls the clean-up service for a page only when the page has
\* no blocks at that moment; when the call returns the page holds exactly one
\* block, a paragraph of order 0 whose content is the result of the call; the
\* blocks of a page that has blocks are never changed.
C22_LazyCleanup ==
  [][/\ Len(loops') >= Len(loops) =>
          \A l \in 1..Len(loops') :
            (loops'[l].pc = "cleanup" /\ (l > Len(loops) \/ loops'[l] # loops[l])) =>
              docs'[loops'[l].doc][loops'[l].pIdx + 1].blocks = << >>
     /\ ev'.kind = "cleanupOk" =>
          \E l \in 1..Len(loops) :
            /\ loops[l].pc = "cleanup"
            /\ Len(docs'[loops[l].doc]) > 0 =>
                 LET page == docs'[loops[l].doc][loops[l].pIdx + 1] IN
                   /\ Len(page.blocks) = 1
                   /\ page.blocks[1].type = "paragraph"
                   /\ page.blocks[1].order = 0
                   /\ page.blocks[1].content \in {CleanText(loops[l].pIdx), page.rawText}
     /\ \A d \in 1..MaxDocs : \A p \in 1..Len(docs[d]) :
          (Len(docs'[d]) > 0 /\ docs[d][p].blocks # << >>) =>
            docs'[d][p].blocks = docs[d][p].blocks]_vars

\* C23: while a document of N pages is loaded the cursor's page is within
\* 0..N-1; a page button sets the block index to 0 and moves one page back or
\* forward, staying on page 0 and on the last page; a page button pressed
\* while stopped changes the cursor only.
SeekKinds == {"seekStopped", "seekPlaying"}

C23_CursorStaysOnDocument ==
  [][/\ doc' # 0 => tts'.currentPage \in 0..(Len(docs'[doc']) - 1)
     /\ ev'.kind \in SeekKinds =>
          /\ tts'.currentBlockIndex = 0
          /\ tts'.currentPage \in {Max(0, tts.currentPage - 1),
                                   Min(Len(docs[doc]) - 1, tts.currentPage + 1)}
     /\ ev'.kind = "seekStopped" =>
          /\ ~tts'.isPlaying
          /\ loops' = loops
          /\ handles' = handles
          /\ tts' = [tts EXCEPT !.currentPage = tts'.currentPage,
                                !.currentBlockIndex = 0]]_vars

\* the node with identity k is in activeSourcesRef
Tracked(k) == \E i \in 1..Len(handles) : handles[i].id = k /\ handles[i].tracked

\* C24: a node that was started and has neither ended nor been stopped is in
\* activeSourcesRef (also after a block failed), and every node in the set
\* leaves it again, by its onended callback or by stopPlayback.
C24_NoOrphanedHandles ==
  /\ [](\A i \in 1..Len(handles) : handles[i].state = "playing" => handles[i].tracked)
  /\ \A k \in 1..MaxHandles : Tracked(k) ~> ~Tracked(k)

\* two nodes in the set, the older one ended and awaiting its onended callback
C24_Witness ==
  /\ Len(handles) = 2
  /\ handles[1].state = "ended" /\ handles[1].tracked
  /\ handles[2].state = "playing" /\ handles[2].tracked
  /\ tts.isPlaying

====
